---- MODULE Spec2Model ----
(***************************************************************************)
(* State-machine model of fire_project_10052025.py: one Streamlit session  *)
(* that executes the script top to bottom (possibly several times), the    *)
(* detection loop of lines 83-118, the camera handles it opens and         *)
(* releases, the cooldown-gated alert dispatch and the detached            *)
(* send_alert threads.                                                     *)
(*                                                                         *)
(* Time is in whole seconds.  box.cls is a float holding a class index;    *)
(* it is kept in tenths (25.0 is 250) so that int() is a real truncation.  *)
(* Confidences are in hundredths.                                          *)
(***************************************************************************)
EXTENDS Integers, Sequences, FiniteSets

(* ------------------------------ bounds -------------------------------- *)
\* largest clock reading considered
MaxClock == 200
\* number of executions of the script in the session
MaxRuns == 2
\* number of VideoCapture handles the devices hand out in the session
MaxHandles == 2
\* number of boxes the detector returns for one frame
MaxBoxes == 2

\* first reading of time.time() and the amounts it can advance between readings
StartClock == 100
Ticks == {0, 30, 40, 70}
\* raw values of box.cls (tenths) and of box.conf (hundredths)
RawClasses == {240, 250, 260, 270, 280}
Confidences == {50, 90}
\* values of the sidebar widgets (lines 37-44)
CameraOptions == {"Webcam", "IP Camera"}
Urls == {"", "http"}
Thresholds == {50, 90}
Cooldowns == {60, 90}

None == 0

(* --------------------------- program constants ------------------------ *)
FIRE_CLASSES == {25, 26, 27}

VARIABLES
    pc,               \* position of the script thread
    runs,             \* executions of the script so far
    model,            \* TRUE iff load_model() returned a model (cached resource)
    stop_detection,   \* st.session_state["stop_detection"]
    alert_triggered,  \* st.session_state.alert_triggered
    camera_option, ip_cam_url, conf_threshold, enable_alerts, alert_cooldown,
    cap,              \* the script's variable cap: None or a handle
    opened,           \* handles that are open (opened and not released)
    handles,          \* handles handed out so far
    run_opened,       \* handles opened by the current execution
    last_alert_time,
    clock,            \* last reading of time.time()
    results,          \* results[0].boxes of the current frame
    fire_detected,
    status_text,      \* content of the status_text placeholder
    messages,         \* st.error / st.warning / st.success elements of this run
    history,          \* entries written into the alert_history expander
    threads,          \* send_alert threads in flight, by position
    dispatched,       \* clock readings at which this run started a thread
    reopens,          \* init_camera calls of the loop since normal operation
                      \* was last interrupted by a failed read
    error,            \* exception that ended the run, or "none"
    rerun_requested,  \* a widget interaction the script has not yet honoured
    stale,            \* send_alert threads in flight started by abandoned runs
    unsignalled       \* the flag was set by a thread and no cue followed yet

vars == <<pc, runs, model, stop_detection, alert_triggered, camera_option,
          ip_cam_url, conf_threshold, enable_alerts, alert_cooldown, cap,
          opened, handles, run_opened, last_alert_time, clock, results,
          fire_detected, status_text, messages, history, threads, dispatched,
          reopens, error, rerun_requested, stale, unsignalled>>

aux_vars == <<rerun_requested, stale, unsignalled>>

session_vars == <<model, stop_detection, alert_triggered>>
widget_vars == <<camera_option, ip_cam_url, conf_threshold, enable_alerts,
                 alert_cooldown>>
camera_vars == <<cap, opened, handles, run_opened>>
frame_vars == <<results, fire_detected>>
alert_vars == <<last_alert_time, clock, dispatched>>

LoopPcs == {"while", "read", "backoff", "infer", "gate", "sleep"}

(* ------------------------------ helpers ------------------------------- *)
\* int(x) of a non-negative float kept in tenths
IntOf(x) == x \div 10

Boxes == [cls : RawClasses, conf : Confidences]

BoxSeqs == UNION {[1..n -> Boxes] : n \in 0..MaxBoxes}

Init ==
    /\ pc = "start"
    /\ runs = 1
    /\ model \in BOOLEAN
    /\ stop_detection = FALSE
    /\ alert_triggered = FALSE
    /\ camera_option = "Webcam"
    /\ ip_cam_url = ""
    /\ conf_threshold = 50
    /\ enable_alerts = TRUE
    /\ alert_cooldown = 60
    /\ cap = None
    /\ opened = {}
    /\ handles = 0
    /\ run_opened = {}
    /\ last_alert_time = 0
    /\ clock = StartClock
    /\ results = <<>>
    /\ fire_detected = FALSE
    /\ status_text = "empty"
    /\ messages = {}
    /\ history = 0
    /\ threads = [write |-> 0, flag |-> 0]
    /\ dispatched = <<>>
    /\ reopens = 0
    /\ error = "none"
    /\ rerun_requested = FALSE
    /\ stale = 0
    /\ unsignalled = FALSE

\* lines 48-52 with the flag assigned from the button on every execution
SessionFlag_reset(flag, stop_button) == stop_button

\* lines 48-52: the flag is created False once per session and is only ever
\* assigned True
SessionFlag(flag, stop_button) == flag \/ stop_button

\* lines 9-52: page header, load_model, sidebar widgets, session flags
Start ==
    /\ pc = "start"
    /\ \E option \in CameraOptions, url \in Urls, th \in Thresholds,
          en \in BOOLEAN, cd \in Cooldowns,
          stop_button \in (IF runs = 1 THEN {FALSE} ELSE BOOLEAN) :
        /\ camera_option' = option
        /\ ip_cam_url' = (IF option = "IP Camera" THEN url ELSE "")
        /\ conf_threshold' = th
        /\ enable_alerts' = en
        /\ alert_cooldown' = cd
        /\ stop_detection' = SessionFlag(stop_detection, stop_button)
    /\ messages' = (IF model THEN messages ELSE messages \cup {"model_failed"})
    /\ pc' = "camera"
    /\ UNCHANGED <<aux_vars, runs, model, alert_triggered, camera_vars, alert_vars,
                   frame_vars, status_text, history, threads, reopens, error>>

\* lines 55-66, init_camera(): isOpened is what cap.isOpened() answers for a
\* freshly constructed VideoCapture
InitCamera(isOpened) ==
    IF camera_option = "Webcam" \/ (camera_option = "IP Camera" /\ ip_cam_url # "")
    THEN IF isOpened
         THEN /\ handles < MaxHandles
              /\ handles' = handles + 1
              /\ cap' = handles + 1
              /\ opened' = opened \cup {handles + 1}
              /\ run_opened' = run_opened \cup {handles + 1}
              /\ messages' = messages
         ELSE /\ cap' = None
              /\ messages' = messages \cup {"camera_failed"}
              /\ UNCHANGED <<opened, handles, run_opened>>
    ELSE /\ cap' = None
         /\ UNCHANGED <<opened, handles, run_opened, messages>>

\* lines 68-80: cap = init_camera(), the placeholders, a fresh (empty)
\* alert_history expander, setdefault of alert_triggered
CameraStartup ==
    /\ pc = "camera"
    /\ \E isOpened \in BOOLEAN : InitCamera(isOpened)
    /\ status_text' = "empty"
    /\ history' = 0
    /\ pc' = "guard"
    /\ UNCHANGED <<aux_vars, runs, session_vars, widget_vars, alert_vars, frame_vars,
                   threads, reopens, error>>

\* the guard of line 83 without its model operand
MainGuard_nomodel(c, m, stop) == c # None /\ ~stop

\* line 83: cap and model and not st.session_state["stop_detection"]
MainGuard(c, m, stop) == c # None /\ m /\ ~stop

\* lines 83-84 (loop entered, last_alert_time = 0) or the jump to the else
\* branch of line 117
Guard ==
    /\ pc = "guard"
    /\ IF MainGuard(cap, model, stop_detection)
       THEN /\ last_alert_time' = 0
            /\ pc' = "while"
       ELSE /\ last_alert_time' = last_alert_time
            /\ pc' = "else"
    /\ UNCHANGED <<aux_vars, runs, session_vars, widget_vars, camera_vars, clock,
                   dispatched, frame_vars, status_text, messages, history,
                   threads, reopens, error>>

\* the while condition of line 86 without the stop flag
WhileCond_nostop(c, open, stop) == c \in open

\* line 86: cap.isOpened() and not st.session_state["stop_detection"]
\* (cap is None only after the break of line 93, which skips this test)
WhileCond(c, open, stop) == c \in open /\ ~stop

\* line 86, one evaluation of the while condition
WhileCheck ==
    /\ pc = "while"
    /\ pc' = (IF WhileCond(cap, opened, stop_detection) THEN "read" ELSE "release")
    /\ UNCHANGED <<aux_vars, runs, session_vars, widget_vars, camera_vars, alert_vars,
                   frame_vars, status_text, messages, history, threads,
                   reopens, error>>

\* the positions of a script whose loop makes no Streamlit call
RerunPoints_loopless == {"done"}

\* positions whose next step makes a Streamlit call before it changes the
\* script's state (lines 89, 64, 99, 104/110), and the finished script
RerunPoints == {"read", "backoff", "infer", "gate", "done"}

\* a rerun is pending and the step at position p starts with a Streamlit call:
\* the call raises and the step does not take place
Interrupted(p) == rerun_requested /\ p \in RerunPoints

\* lines 87-89: ret, frame = cap.read(); on failure the warning of line 89 and
\* the script enters time.sleep(2) (with a rerun pending the call of line 89
\* ends the execution instead, see Rerun)
Read ==
    /\ pc = "read"
    /\ \E ret \in BOOLEAN :
        IF ret
        THEN /\ pc' = "infer"
             /\ UNCHANGED <<status_text, reopens>>
        ELSE /\ ~Interrupted(pc)
             /\ pc' = "backoff"
             /\ status_text' = "lost"
             /\ reopens' = 0
    /\ UNCHANGED <<aux_vars, runs, session_vars, widget_vars, camera_vars, alert_vars,
                   frame_vars, messages, history, threads, error>>

\* lines 92-94 with a second backoff and reopen in place of continue
AfterReopen_retry(c) == IF c = None THEN "release" ELSE "backoff"

\* lines 92-94: break when init_camera gave None, else continue
AfterReopen(c) == IF c = None THEN "release" ELSE "while"

\* lines 90-94: the sleep ends, cap = init_camera(), break or continue (with a
\* rerun pending the st.error of line 64 ends the execution instead)
Reopen ==
    /\ pc = "backoff"
    /\ \E isOpened \in BOOLEAN : InitCamera(isOpened)
    /\ cap' = None => ~Interrupted(pc)
    /\ reopens' = reopens + 1
    /\ pc' = AfterReopen(cap')
    /\ UNCHANGED <<aux_vars, runs, session_vars, widget_vars, alert_vars, frame_vars,
                   status_text, history, threads, error>>

\* line 101 with all() in place of any()
FireDetected_all(boxes) ==
    \A i \in 1..Len(boxes) : IntOf(boxes[i].cls) \in FIRE_CLASSES

\* line 101: any(int(box.cls) in FIRE_CLASSES for box in results[0].boxes)
FireDetected(boxes) ==
    \E i \in 1..Len(boxes) : IntOf(boxes[i].cls) \in FIRE_CLASSES

\* lines 96-101 as one step of the loop: inference on the frame, the drawing
\* of the annotated frame, fire_detected; the boxes are local to the iteration
\* and the loop keeps only fire_detected
Infer ==
    /\ pc = "infer"
    /\ ~Interrupted(pc)
    /\ \E boxes \in BoxSeqs :
        /\ \A i \in 1..Len(boxes) : boxes[i].conf >= conf_threshold
        /\ fire_detected' = FireDetected(boxes)
    /\ results' = <<>>
    /\ reopens' = 0
    /\ pc' = "gate"
    /\ UNCHANGED <<aux_vars, runs, session_vars, widget_vars, camera_vars, alert_vars,
                   status_text, messages, history, threads, error>>

\* line 106 with >= in place of >
AlertDue_ge(enabled, current_time, last, cooldown) ==
    enabled /\ (current_time - last) >= cooldown

\* line 106 without the enable_alerts operand
AlertDue_always(enabled, current_time, last, cooldown) ==
    (current_time - last) > cooldown

\* line 106: enable_alerts and (current_time - last_alert_time) > alert_cooldown
AlertDue(enabled, current_time, last, cooldown) ==
    enabled /\ (current_time - last) > cooldown

\* line 107 followed by a join() on the started thread
AfterDispatch_join(started) == IF started THEN "join" ELSE "sleep"

\* lines 107-112: Thread(...).start() returns at once and control falls
\* through to time.sleep(0.05)
AfterDispatch(started) == "sleep"

\* lines 104 and 110 with the status taken from the alert decision
GateStatus_alertOnly(fire, due) == IF fire /\ due THEN "fire" ELSE "nofire"

\* lines 103-104 and 109-110: the status follows fire_detected alone
GateStatus(fire, due) == IF fire THEN "fire" ELSE "nofire"

\* lines 103-110: status, the reading of time.time(), the alert gate
AlertGate ==
    /\ pc = "gate"
    /\ ~Interrupted(pc)
    /\ IF fire_detected
       THEN /\ \E d \in Ticks :
                /\ clock + d <= MaxClock
                /\ clock' = clock + d
            /\ IF AlertDue(enable_alerts, clock', last_alert_time, alert_cooldown)
               THEN /\ threads' = [threads EXCEPT !.write = @ + 1]
                    /\ last_alert_time' = clock'
                    /\ dispatched' = Append(dispatched, clock')
                    /\ pc' = AfterDispatch(TRUE)
               ELSE /\ UNCHANGED <<threads, last_alert_time, dispatched>>
                    /\ pc' = AfterDispatch(FALSE)
       ELSE /\ pc' = AfterDispatch(FALSE)
            /\ UNCHANGED <<clock, threads, last_alert_time, dispatched>>
    /\ status_text' = GateStatus(fire_detected, threads' # threads)
    /\ UNCHANGED <<aux_vars, runs, session_vars, widget_vars, camera_vars,
                   frame_vars, messages, history, reopens, error>>

\* line 112: time.sleep(0.05) ends, back to the while condition
Sleep ==
    /\ pc = "sleep"
    /\ pc' = "while"
    /\ UNCHANGED <<aux_vars, runs, session_vars, widget_vars, camera_vars,
                   alert_vars, frame_vars, status_text, messages, history,
                   threads, reopens, error>>

\* lines 114-115: cap.release() (an AttributeError when cap is None, which
\* ends the run) and the "Detection stopped" message
Release ==
    /\ pc = "release"
    /\ IF cap = None
       THEN /\ error' = "AttributeError"
            /\ pc' = "done"
            /\ UNCHANGED <<opened, messages>>
       ELSE /\ opened' = opened \ {cap}
            /\ messages' = messages \cup {"stopped"}
            /\ pc' = "sound"
            /\ error' = error
    /\ UNCHANGED <<aux_vars, runs, session_vars, widget_vars, cap, handles,
                   run_opened, alert_vars, frame_vars, status_text, history,
                   threads, reopens>>

\* lines 117-118: the else branch of the guard of line 83
Else ==
    /\ pc = "else"
    /\ messages' = messages \cup {"configure_source"}
    /\ pc' = "sound"
    /\ UNCHANGED <<aux_vars, runs, session_vars, widget_vars, camera_vars,
                   alert_vars, frame_vars, status_text, history, threads,
                   reopens, error>>

\* line 121: the test of the alert_triggered flag
SoundTest ==
    /\ pc = "sound"
    /\ pc' = (IF alert_triggered THEN "cue" ELSE "done")
    /\ UNCHANGED <<aux_vars, runs, session_vars, widget_vars, camera_vars,
                   alert_vars, frame_vars, status_text, messages, history,
                   threads, reopens, error>>

\* lines 122-126: the audio element is emitted
SoundCue ==
    /\ pc = "cue"
    /\ messages' = messages \cup {"audio"}
    /\ unsignalled' = FALSE
    /\ pc' = "clear"
    /\ UNCHANGED <<runs, session_vars, widget_vars, camera_vars, alert_vars,
                   frame_vars, status_text, history, threads, reopens, error,
                   rerun_requested, stale>>

\* line 127: the flag is cleared
SoundClear ==
    /\ pc = "clear"
    /\ alert_triggered' = FALSE
    /\ pc' = "done"
    /\ UNCHANGED <<aux_vars, runs, model, stop_detection, widget_vars,
                   camera_vars, alert_vars, frame_vars, status_text, messages,
                   history, threads, reopens, error>>

\* a pending widget interaction is honoured: the Streamlit call raises, the
\* execution is abandoned and the script starts again from line 1;
\* st.session_state, the cached model, open handles and running threads
\* survive, the script's own variables and the page elements do not
Rerun ==
    /\ Interrupted(pc)
    /\ runs < MaxRuns
    /\ runs' = runs + 1
    /\ rerun_requested' = FALSE
    /\ pc' = "start"
    /\ cap' = None
    /\ run_opened' = {}
    /\ last_alert_time' = 0
    /\ dispatched' = <<>>
    /\ results' = <<>>
    /\ fire_detected' = FALSE
    /\ status_text' = "empty"
    /\ messages' = {}
    /\ history' = 0
    /\ reopens' = 0
    /\ error' = "none"
    /\ stale' = stale + threads.write + threads.flag
    /\ threads' = [write |-> 0, flag |-> 0]
    /\ UNCHANGED <<session_vars, widget_vars, opened, handles, clock,
                   unsignalled>>

\* the steps of the script thread
ScriptStep ==
    \/ Start
    \/ CameraStartup
    \/ Guard
    \/ WhileCheck
    \/ Read
    \/ Reopen
    \/ Infer
    \/ AlertGate
    \/ Sleep
    \/ Release
    \/ Else
    \/ SoundTest
    \/ SoundCue
    \/ SoundClear
    \/ Rerun

\* line 107 with the thread's exception re-raised in the script
ThreadError_propagates(p) == "release"

\* line 107: send_alert runs on its own daemon thread, so an exception it
\* raises ends that thread and leaves the script where it is
ThreadError(p) == p

\* lines 75-76 of a send_alert thread: the timestamp and the history entry
ThreadWrite ==
    /\ threads.write > 0
    /\ threads' = [write |-> threads.write - 1, flag |-> threads.flag + 1]
    /\ history' = history + 1
    /\ UNCHANGED <<aux_vars, pc, runs, session_vars, widget_vars, camera_vars,
                   alert_vars, frame_vars, status_text, messages, reopens,
                   error>>

\* line 76 raises in a send_alert thread: no entry, the thread ends
ThreadWriteFails ==
    /\ threads.write > 0
    /\ threads' = [threads EXCEPT !.write = @ - 1]
    /\ pc' = ThreadError(pc)
    /\ UNCHANGED <<aux_vars, runs, session_vars, widget_vars, camera_vars,
                   alert_vars, frame_vars, status_text, messages, history,
                   reopens, error>>

\* line 77 of a send_alert thread: the session flag is set, the thread ends
ThreadFlag ==
    /\ threads.flag > 0
    /\ threads' = [threads EXCEPT !.flag = @ - 1]
    /\ alert_triggered' = TRUE
    /\ unsignalled' = TRUE
    /\ UNCHANGED <<pc, runs, model, stop_detection, widget_vars, camera_vars,
                   alert_vars, frame_vars, status_text, messages, history,
                   reopens, error, rerun_requested, stale>>

\* line 77 raises in a send_alert thread: the flag is not set, the thread ends
ThreadFlagFails ==
    /\ threads.flag > 0
    /\ threads' = [threads EXCEPT !.flag = @ - 1]
    /\ pc' = ThreadError(pc)
    /\ UNCHANGED <<aux_vars, runs, session_vars, widget_vars, camera_vars,
                   alert_vars, frame_vars, status_text, messages, history,
                   reopens, error>>

\* lines 75-77 of a thread started by an abandoned execution: its entry goes
\* to that execution's expander, not to the one on the page; the flag is the
\* session's
StaleFlag ==
    /\ stale > 0
    /\ stale' = stale - 1
    /\ alert_triggered' = TRUE
    /\ unsignalled' = TRUE
    /\ UNCHANGED <<pc, runs, model, stop_detection, widget_vars, camera_vars,
                   alert_vars, frame_vars, status_text, messages, history,
                   threads, reopens, error, rerun_requested>>

\* line 76 or 77 raises in a thread started by an abandoned execution
StaleFails ==
    /\ stale > 0
    /\ stale' = stale - 1
    /\ pc' = ThreadError(pc)
    /\ UNCHANGED <<runs, session_vars, widget_vars, camera_vars, alert_vars,
                   frame_vars, status_text, messages, history, threads,
                   reopens, error, rerun_requested, unsignalled>>

\* the steps of the send_alert threads
ThreadStep ==
    \/ ThreadWrite
    \/ ThreadWriteFails
    \/ ThreadFlag
    \/ ThreadFlagFails
    \/ StaleFlag
    \/ StaleFails

\* lines 45-52 seen from a running loop: the session flag becomes True while
\* the loop is between two evaluations of line 86
StopRequested ==
    /\ pc \in LoopPcs
    /\ ~stop_detection
    /\ stop_detection' = TRUE
    /\ UNCHANGED <<aux_vars, pc, runs, model, alert_triggered, widget_vars,
                   camera_vars, alert_vars, frame_vars, status_text, messages,
                   history, threads, reopens, error>>

\* lines 35-45: the user changes a sidebar widget or presses the button while
\* an execution is in progress or finished; the new values are read by the
\* next execution (Start)
Interact ==
    /\ ~rerun_requested
    /\ runs < MaxRuns
    /\ pc \in LoopPcs \cup {"done"}
    /\ rerun_requested' = TRUE
    /\ UNCHANGED <<pc, runs, session_vars, widget_vars, camera_vars,
                   alert_vars, frame_vars, status_text, messages, history,
                   threads, reopens, error, stale, unsignalled>>

Next ==
    \/ ScriptStep
    \/ ThreadStep
    \/ StopRequested
    \/ Interact

Spec == Init /\ [][Next]_vars

\* the script thread and the send_alert threads keep being scheduled; the
\* user is under no obligation to interact
FairSpec == Spec /\ WF_vars(ScriptStep) /\ WF_vars(ThreadStep)

(* ----------------- the classifier on its own (line 96, 101) ------------ *)
\* a loop that has read a frame and is about to call the model
ClassifierInit ==
    /\ pc = "infer"
    /\ runs = 1
    /\ model = TRUE
    /\ stop_detection = FALSE
    /\ alert_triggered = FALSE
    /\ camera_option = "Webcam"
    /\ ip_cam_url = ""
    /\ conf_threshold \in Thresholds
    /\ enable_alerts \in BOOLEAN
    /\ alert_cooldown = 60
    /\ cap = 1
    /\ opened = {1}
    /\ handles = 1
    /\ run_opened = {1}
    /\ last_alert_time = 0
    /\ clock = StartClock
    /\ results = <<>>
    /\ fire_detected = FALSE
    /\ status_text = "empty"
    /\ messages = {}
    /\ history = 0
    /\ threads = [write |-> 0, flag |-> 0]
    /\ dispatched = <<>>
    /\ reopens = 0
    /\ error = "none"
    /\ rerun_requested = FALSE
    /\ stale = 0
    /\ unsignalled = FALSE

\* line 96: results = model(frame, conf=conf_threshold), the boxes whose
\* confidence reaches the threshold
Detect ==
    /\ pc = "infer"
    /\ \E boxes \in BoxSeqs :
        /\ \A i \in 1..Len(boxes) : boxes[i].conf >= conf_threshold
        /\ results' = boxes
    /\ pc' = "classify"
    /\ UNCHANGED <<aux_vars, runs, session_vars, widget_vars, camera_vars, alert_vars,
                   fire_detected, status_text, messages, history, threads,
                   reopens, error>>

\* line 101: fire_detected = any(...) over the boxes just returned
Classify ==
    /\ pc = "classify"
    /\ fire_detected' = FireDetected(results)
    /\ pc' = "gate"
    /\ UNCHANGED <<aux_vars, runs, session_vars, widget_vars, camera_vars, alert_vars,
                   results, status_text, messages, history, threads, reopens,
                   error>>

ClassifierNext ==
    \/ Detect
    \/ Classify
    \/ AlertGate

SpecClassifier == ClassifierInit /\ [][ClassifierNext]_vars

(* ------------------------------ properties ----------------------------- *)

\* C1: within one run of the loop any two alert dispatches are made at clock
\* readings that differ by more than alert_cooldown.
C1_CooldownSeparation ==
    \A i, j \in 1..Len(dispatched) :
        i < j => dispatched[j] - dispatched[i] > alert_cooldown

\* two dispatches in one run with alerts enabled, the second 70 seconds
\* after the first under a cooldown of 60
C1_Witness ==
    /\ Len(dispatched) = 2
    /\ dispatched[2] - dispatched[1] = 70
    /\ alert_cooldown = 60
    /\ enable_alerts

\* C2: the gate step dispatches an alert iff fire_detected and enable_alerts
\* and (current_time - last_alert_time) > alert_cooldown (strictly), and
\* last_alert_time becomes current_time exactly when it dispatches and is
\* unchanged otherwise.
C2_GateMatchesReference ==
    [][(pc = "gate" /\ pc' \notin {"gate", "start"}) =>
        LET should_alert == /\ fire_detected
                            /\ enable_alerts
                            /\ (clock' - last_alert_time) > alert_cooldown
        IN /\ (Len(dispatched') = Len(dispatched) + 1) <=> should_alert
           /\ (dispatched' = dispatched) <=> ~should_alert
           /\ threads'.write = threads.write + (IF should_alert THEN 1 ELSE 0)
           /\ last_alert_time' = (IF should_alert THEN clock' ELSE last_alert_time)
           /\ should_alert => dispatched'[Len(dispatched')] = clock'
      ]_vars

\* a fire detection exactly alert_cooldown after a dispatched alert has gone
\* through the gate without a dispatch
C2_Witness ==
    /\ pc = "sleep"
    /\ fire_detected
    /\ enable_alerts
    /\ last_alert_time = StartClock
    /\ clock - last_alert_time = alert_cooldown
    /\ dispatched = <<StartClock>>

\* C3: fire_detected is true iff at least one detection's class id is in
\* {25, 26, 27}, whatever the confidences, and false for no detections.
C3_FireIffFireClass ==
    pc = "gate" =>
        /\ fire_detected <=>
              ({IntOf(results[i].cls) : i \in DOMAIN results} \cap {25, 26, 27} # {})
        /\ (results = <<>>) => ~fire_detected

\* a frame with one non-fire box and one low-confidence fire box was classified
C3_Witness ==
    /\ pc = "gate"
    /\ Len(results) = 2
    /\ results[1] = [cls |-> 240, conf |-> 90]
    /\ results[2] = [cls |-> 270, conf |-> 50]
    /\ fire_detected

\* C4: after a failed read, with the stop flag not set and a successful
\* re-open, the loop does not terminate: one backoff-and-reopen cycle, then
\* the while condition passes, the next step is a frame read, and a
\* successful read goes on to inference on the reopened handle.
C4_RecoveryResumes ==
    [][/\ (pc = "backoff" /\ reopens' # reopens /\ pc' # "start" /\ cap' # None) =>
            /\ pc' = "while"
            /\ reopens' = 1
            /\ cap' \in opened'
            /\ cap' # cap
            /\ error' = "none"
       /\ (pc = "while" /\ reopens = 1 /\ ~stop_detection /\ pc' # pc) =>
            pc' = "read"
       /\ (pc = "read" /\ reopens = 1 /\ pc' = "infer") =>
            /\ cap' = cap
            /\ cap \in opened
            /\ reopens' = 1
      ]_vars

\* the loop is in inference on the reopened source after exactly one cycle
C4_Witness ==
    /\ pc = "infer"
    /\ reopens = 1
    /\ status_text = "lost"
    /\ ~stop_detection
    /\ cap = 2
    /\ error = "none"

LoopBody == {"read", "backoff", "infer", "gate", "sleep"}

\* C5: the stop flag is examined only at the top of an iteration: with the
\* flag set, an iteration in flight still takes its normal steps, and once
\* the script is at the while condition or outside the loop no further frame
\* read and no further inference follows.
C5_StopAtBoundary ==
    [][stop_detection =>
        /\ pc \notin LoopBody => pc' \notin LoopBody
        /\ (pc = "read" /\ pc' \notin {pc, "start"}) => pc' \in {"infer", "backoff"}
        /\ (pc = "infer" /\ pc' \notin {pc, "start"}) => pc' = "gate"
        /\ (pc = "gate" /\ pc' \notin {pc, "start"}) => pc' = "sleep"
        /\ (pc = "sleep" /\ pc' \notin {pc, "start"}) => pc' = "while"
        /\ (pc = "backoff" /\ pc' \notin {pc, "start"}) => pc' \in {"while", "release"}
        /\ (pc = "while" /\ pc' # pc) => pc' = "release"
      ]_vars

\* the flag was set while the first run's loop was in flight, the iteration
\* ended with a fire status and the loop left through the while condition
C5_Witness ==
    /\ runs = 1
    /\ stop_detection
    /\ pc = "sound"
    /\ "stopped" \in messages
    /\ status_text = "fire"
    /\ opened = {}

\* C6: every handle opened during an execution of the script has been
\* released by the time that execution ends.
C6_AllReleasedAtEnd ==
    pc = "done" => run_opened \cap opened = {}

\* C7: when a read fails and the re-open fails too, the run ends in an
\* orderly way: the failure is reported and the termination path, release
\* step included, raises no unhandled error.
C7_OrderlyFailure ==
    (cap = None /\ reopens >= 1 /\ pc \in {"release", "sound", "cue", "clear", "done"}) =>
        /\ "camera_failed" \in messages
        /\ error = "none"

StartupFailed == ~model \/ (run_opened = {} /\ pc \notin {"start", "camera"})

\* C8: if load_model or the startup init_camera returned None, the loop is
\* not entered in that run: no read, no inference, no dispatch, and the run
\* ends with the user-visible warning of the else branch.
C8_NoLoopOnStartupFailure ==
    StartupFailed =>
        /\ pc \notin LoopPcs \cup {"release"}
        /\ status_text = "empty"
        /\ dispatched = <<>>
        /\ "stopped" \notin messages
        /\ error = "none"
        /\ pc \in {"sound", "cue", "clear", "done"} => "configure_source" \in messages
        /\ ~model => (pc # "start" => "model_failed" \in messages)

\* a run with a working camera and no model has ended in the else branch
C8_Witness ==
    /\ pc = "done"
    /\ ~model
    /\ cap # None
    /\ ~stop_detection
    /\ messages = {"model_failed", "configure_source"}

\* C9: at most one camera handle is open in every reachable state.
C9_SingleHandle ==
    Cardinality(opened) <= 1

\* C10: while send_alert threads are in flight the script's next step is
\* enabled; it never waits for a thread.
C10_LoopNeverWaits ==
    (threads.write + threads.flag + stale > 0 /\ pc # "done") => ENABLED ScriptStep

\* two threads started by one run have not taken a step and the loop is
\* already in the inference of a later frame
C10_Witness ==
    /\ threads.write = 2
    /\ Len(dispatched) = 2
    /\ history = 0
    /\ pc = "infer"

\* C11: a send_alert thread that raises at line 76 or 77 changes nothing of
\* the detection loop: the script stays where it is with its state, and
\* last_alert_time keeps the value set at dispatch.
C11_DispatchFailureContained ==
    [][(/\ runs' = runs
        /\ \/ threads'.write < threads.write /\ threads'.flag = threads.flag
           \/ /\ threads'.flag < threads.flag
              /\ threads'.write = threads.write
              /\ alert_triggered' = alert_triggered
           \/ stale' < stale /\ alert_triggered' = alert_triggered) =>
            /\ pc' = pc
            /\ error' = error
            /\ last_alert_time' = last_alert_time
            /\ UNCHANGED <<cap, opened, stop_detection, dispatched, clock,
                           fire_detected, status_text, messages, reopens,
                           rerun_requested>>
      ]_vars

\* the only thread of the first run ended at line 76 without an entry and
\* without setting the flag, and the loop is at the read of a later iteration
C11_Witness ==
    /\ runs = 1
    /\ Len(dispatched) = 1
    /\ last_alert_time = dispatched[1]
    /\ threads = [write |-> 0, flag |-> 0]
    /\ history = 0
    /\ ~alert_triggered
    /\ ~unsignalled
    /\ pc = "read"
    /\ error = "none"

\* C12: last_alert_time never decreases in any step, a re-execution of the
\* script with the session state retained included.
C12_LastAlertMonotonic ==
    [][last_alert_time' >= last_alert_time]_vars

\* C13: the alert history only grows and never holds more entries than
\* alerts were dispatched.
C13_HistoryAppendOnly ==
    [][/\ history' >= history
       /\ history' <= Len(dispatched')]_vars

\* C14: every alert that sets alert_triggered is eventually consumed (the
\* flag goes back to False), also when the loop keeps running and no stop is
\* ever requested: a set flag leads to a cleared flag without the help of a
\* stop request or of the loop ending.
C14_FlagEventuallyConsumed ==
    alert_triggered ~> (~alert_triggered \/ stop_detection \/ pc \notin LoopPcs)

\* C15: with a settings change pending, the iteration in flight does not get
\* past its first Streamlit call: no result of an inference made with the old
\* values is kept, the alert gate is not evaluated with them, no further
\* iteration starts, and the values stay as read until the script restarts.
C15_ChangeAppliesWithinOneIteration ==
    [][rerun_requested =>
        /\ pc' # pc => pc' \notin {"gate", "sleep", "backoff"}
        /\ pc \in {"infer", "gate"} /\ pc' # pc => pc' = "start"
        /\ pc' # "start" =>
            UNCHANGED <<fire_detected, status_text, last_alert_time,
                        dispatched, widget_vars>>
      ]_vars

\* the second execution runs with alerts disabled after the first one, which
\* had them enabled, dispatched an alert: its fire detection went through
\* the gate under the new values
C15_Witness ==
    /\ runs = 2
    /\ stale > 0
    /\ ~enable_alerts
    /\ pc = "sleep"
    /\ status_text = "fire"
    /\ dispatched = <<>>
    /\ ~rerun_requested

\* C16: once the stop flag is set, a run whose loop was entered ends STOPPED:
\* out through the while condition, handle released, "Detection stopped"
\* shown.
C16_StopReachesStopped ==
    (pc = "done" /\ stop_detection /\ "configure_source" \notin messages) =>
        /\ "stopped" \in messages
        /\ error = "none"
        /\ cap \notin opened

\* C17: an iteration whose read succeeds sets the status to "fire" iff
\* fire_detected and to "nofire" otherwise, whatever enable_alerts and the
\* cooldown say; the "lost" status is set exactly by a failed read.
C17_StatusFollowsDetection ==
    [][/\ (pc = "gate" /\ pc' \notin {"gate", "start"}) =>
            status_text' = (IF fire_detected THEN "fire" ELSE "nofire")
       /\ (pc = "read" /\ pc' = "backoff") => status_text' = "lost"
       /\ (pc = "read" /\ pc' = "infer") => status_text' = status_text
       /\ (status_text' = "lost" /\ status_text # "lost") =>
            (pc = "read" /\ pc' = "backoff")
      ]_vars

\* a fire detection suppressed by the cooldown has set the fire status
C17_Witness ==
    /\ pc = "sleep"
    /\ fire_detected
    /\ status_text = "fire"
    /\ enable_alerts
    /\ Len(dispatched) = 1
    /\ clock = last_alert_time + 30

\* C18: a flag set by a send_alert thread is not cleared before a cue has
\* been emitted after that set.
C18_NoLostSignal ==
    unsignalled => alert_triggered

\* C19: once stop_detection is True no step sets it back, and from then on
\* no execution enters the loop or dispatches an alert.
C19_StopSticky ==
    [][stop_detection =>
        /\ stop_detection'
        /\ pc = "guard" => pc' \in {"guard", "else"}
        /\ pc \notin LoopPcs =>
            /\ pc' \notin LoopPcs
            /\ threads'.write <= threads.write
            /\ Len(dispatched') <= Len(dispatched)
      ]_vars

\* a second execution, started with the flag already set and with a model
\* and a camera available, has ended without entering the loop
C19_Witness ==
    /\ runs = 2
    /\ stop_detection
    /\ model
    /\ cap \in opened
    /\ pc = "done"
    /\ messages = {"configure_source"}
    /\ status_text = "empty"

====
